---- MODULE Spec2Model ----
(***************************************************************************)
(* Small-step model of the brainfuck engine of src/src/lib.rs: the State   *)
(* struct, Command::from_byte, pointer_add / pointer_sub, get_cur /        *)
(* get_mut_cur, run_with_state, the recursive run_command and evaluate.    *)
(* One call frame of run_command that is inside its `while` loop is one    *)
(* element of `stack`; the stop channel is the rendezvous channel          *)
(* sync_channel(0), whose only content is the senders blocked in send().   *)
(***************************************************************************)
EXTENDS Integers, Sequences, FiniteSets, TLC

VARIABLES
    cells,          \* State::cells, Vec<Wrapping<u8>>
    cells_limit,    \* State::cells_limit: <<>> is None, <<n, wrap>> is Some((n, wrap))
    cell_pointer,   \* State::cell_pointer
    ongoing_loops,  \* State::ongoing_loops
    loop_nesting,   \* State::loop_nesting, u16
    channel,        \* State::channel: number of senders blocked in send(())
    out,            \* bytes written to io.o
    inp,            \* bytes read from io.i so far
    pc,             \* "idle", "called" (run_with_state entered, no byte read yet),
                    \* "running", "evaluated", "panicked"
    stack,          \* run_command frames that are inside their while loop
    result,         \* what the last run_with_state call returned
    evaluated,      \* what State::evaluate returned
    nread,          \* bytes the source streams have yielded so far
    nsent,          \* stop requests made so far
    nstopped,       \* polls that returned Stopped so far
    sent_at,        \* where the run was when the latest stop request of this run was made
    last,           \* the step taken last: <<kind, command>>
    prog,           \* the whole source stream, where it is fixed in advance
    ref,            \* the reference interpreter run beside the engine
    trail           \* the pointer moves made so far, where they are recorded

engine == <<cells, cells_limit, cell_pointer, ongoing_loops, loop_nesting>>
beside == <<prog, ref, trail>>
vars == <<cells, cells_limit, cell_pointer, ongoing_loops, loop_nesting, channel,
          out, inp, pc, stack, result, evaluated, nread, nsent, nstopped, sent_at,
          last,
          prog, ref, trail>>

-----------------------------------------------------------------------------
(* Bounds of the model *)

\* source bytes read over all runs of one State
MaxSrc == 4
\* stop requests made over the life of one State
MaxStops == 1
\* largest cell limit a State is constructed with
MaxLimit == 3
\* highest pointer position explored on a tape without limit
MaxPtr == 2
\* bytes the input port delivers before it is exhausted
MaxIn == 1
\* bytes the output port accepts before the model stops exploring
MaxOut == 1
\* source bytes read over all runs where only + - [ ] are read
MaxLoopSrc == 6
\* length of the balanced programs compared with the reference interpreter
MaxRefLen == 4
\* length of the programs run twice, once plainly and once with comment bytes
\* or split in two fragments
MaxTwinLen == 3
\* length of the programs of + . < [ ] run with stop requests
MaxNestLen == 4
\* source bytes read over all runs where the cells written are recorded
MaxTapeSrc == 4
\* pointer moves made over all runs where only > < are read
MaxWalk == 6
\* bytes read after the DeepOpens-th in the runs that start with open loops
DeepTail == 2

(* Program constants *)

\* u8 cells: Wrapping<u8> arithmetic is modulo 2^8
CellMod == 256
\* loop_nesting is a u16
U16Max == 65535
\* the longest run of `[` that the counter counts: u16::MAX of them
DeepOpens == U16Max

-----------------------------------------------------------------------------
(* Command and Command::from_byte *)

PtrIncr == "PtrIncr"
PtrDecr == "PtrDecr"
Incr == "Incr"
Decr == "Decr"
Out == "Out"
In == "In"
LoopBegin == "LoopBegin"
LoopEnd == "LoopEnd"
None == "None"

Command == {PtrIncr, PtrDecr, Incr, Decr, Out, In, LoopBegin, LoopEnd}

\* bytes by their ASCII code: + , - . < > [ ] and x, a byte that is no command
SrcBytes == {43, 44, 45, 46, 60, 62, 91, 93, 120}

\* (mutant) the byte x is taken for +
from_byte_XIncr(cmd) ==
    CASE cmd = 43 -> Incr
      [] cmd = 120 -> Incr
      [] cmd = 45 -> Decr
      [] cmd = 62 -> PtrIncr
      [] cmd = 60 -> PtrDecr
      [] cmd = 46 -> Out
      [] cmd = 44 -> In
      [] cmd = 91 -> LoopBegin
      [] cmd = 93 -> LoopEnd
      [] OTHER -> None

from_byte(cmd) ==
    CASE cmd = 43 -> Incr
      [] cmd = 45 -> Decr
      [] cmd = 62 -> PtrIncr
      [] cmd = 60 -> PtrDecr
      [] cmd = 46 -> Out
      [] cmd = 44 -> In
      [] cmd = 91 -> LoopBegin
      [] cmd = 93 -> LoopEnd
      [] OTHER -> None

-----------------------------------------------------------------------------
(* Vec<Command>: ongoing_loops and the loop bodies taken from it. The vector
   is held as its runs, <<[c |-> command, n |-> how many in a row]>>, no two
   neighbouring runs of the same command: the 65534 buffered LoopBegin of a
   deeply nested program are one run. *)

VecNew == <<>>

\* Vec::push
VecPush(v, c) ==
    IF v # <<>> /\ v[Len(v)].c = c
    THEN [v EXCEPT ![Len(v)].n = @ + 1]
    ELSE Append(v, [c |-> c, n |-> 1])

\* Vec::len
RECURSIVE VecLen(_)
VecLen(v) == IF v = <<>> THEN 0 ELSE v[1].n + VecLen(Tail(v))

\* the i-th element, i in 1..VecLen(v): what `for &cmd in &cmds` yields i-th
RECURSIVE VecAt(_, _)
VecAt(v, i) == IF i <= v[1].n THEN v[1].c ELSE VecAt(Tail(v), i - v[1].n)

\* n times the command c
VecRepeat(c, n) == IF n = 0 THEN <<>> ELSE <<[c |-> c, n |-> n]>>

-----------------------------------------------------------------------------
(* CellsLimit *)

NoLimit == <<>>
Limits == {NoLimit} \cup {<<n, w>> : n \in 1..MaxLimit, w \in BOOLEAN}

\* an Option<usize> is <<>> (None) or <<n>> (Some(n))
limit(cl) == IF cl = NoLimit THEN <<>> ELSE <<cl[1]>>
wraps(cl) == IF cl = NoLimit THEN FALSE ELSE cl[2]
get_limit_if_wrap(cl) == IF cl # NoLimit /\ cl[2] THEN <<cl[1]>> ELSE <<>>

-----------------------------------------------------------------------------
(* The tape *)

Zeros(n) == [i \in 1..n |-> 0]

\* State::get_cur: the cell under the pointer, 0 beyond the allocated cells
get_cur == IF cell_pointer < Len(cells) THEN cells[cell_pointer + 1] ELSE 0

\* (mutant) the resize allocates one cell more than the pointer needs
Resized_Extra == IF Len(cells) <= cell_pointer
                 THEN cells \o Zeros(cell_pointer + 2 - Len(cells))
                 ELSE cells

\* the resize of State::get_mut_cur
Resized == IF Len(cells) <= cell_pointer
           THEN cells \o Zeros(cell_pointer + 1 - Len(cells))
           ELSE cells

\* *state.get_mut_cur() = v
SetCur(v) == [Resized EXCEPT ![cell_pointer + 1] = v]

\* (mutant) the increment saturates at 255
WrappingAdd1_Saturating(v) == IF v = CellMod - 1 THEN v ELSE v + 1

\* Wrapping<u8> += Wrapping(1), -= Wrapping(1)
WrappingAdd1(v) == (v + 1) % CellMod
WrappingSub1(v) == (v + CellMod - 1) % CellMod

\* usize::overflowing_add(1), overflowing_sub(1) as <<value, overflowed>>. The
\* pointer of the model stays far below usize::MAX, so the addition never
\* overflows here; the subtraction overflows at 0 (its value is then unused).
overflowing_add(p) == <<p + 1, FALSE>>
overflowing_sub(p) == IF p = 0 THEN <<-1, TRUE>> ELSE <<p - 1, FALSE>>

CellPointerOverflow == "CellPointerOverflow"
NoLoopStarted == "NoLoopStarted"
UnendedLoop == "UnendedLoop"
Stopped == "Stopped"
IoError == "IoError"
Ok == "Ok"

\* (mutant) the limit is checked with > instead of >=
pointer_add_OffByOne(p, cl) ==
    LET cp == overflowing_add(p)[1]
    IN  IF cl # NoLimit /\ cl[2] THEN <<Ok, cp % cl[1]>>
        ELSE IF cl = NoLimit THEN <<Ok, cp>>
        ELSE IF cp > cl[1] THEN <<CellPointerOverflow, p>>
        ELSE <<Ok, cp>>

\* State::pointer_add as <<result, new cell_pointer>>
pointer_add(p, cl) ==
    LET cp == overflowing_add(p)[1]
        overflow == overflowing_add(p)[2]
    IN  IF cl # NoLimit /\ cl[2] THEN <<Ok, cp % cl[1]>>
        ELSE IF overflow THEN <<CellPointerOverflow, p>>
        ELSE IF cl = NoLimit THEN <<Ok, cp>>
        ELSE IF cp >= cl[1] THEN <<CellPointerOverflow, p>>
        ELSE <<Ok, cp>>

\* (mutant) a retreat from 0 under a wrapping limit stays at 0
pointer_sub_Clamped(p, cl) ==
    LET s == overflowing_sub(p)
    IN  IF s[2]
        THEN IF get_limit_if_wrap(cl) # <<>> THEN <<Ok, 0>> ELSE <<CellPointerOverflow, p>>
        ELSE <<Ok, s[1]>>

\* (mutant) a retreat from 0 under a wrapping limit goes to the limit itself
pointer_sub_ToLimit(p, cl) ==
    LET s == overflowing_sub(p)
    IN  IF s[2]
        THEN IF get_limit_if_wrap(cl) # <<>>
             THEN <<Ok, get_limit_if_wrap(cl)[1]>>
             ELSE <<CellPointerOverflow, p>>
        ELSE <<Ok, s[1]>>

\* State::pointer_sub as <<result, new cell_pointer>>
pointer_sub(p, cl) ==
    LET cp == overflowing_sub(p)[1]
        overflow == overflowing_sub(p)[2]
    IN  IF overflow
        THEN IF get_limit_if_wrap(cl) # <<>>
             THEN <<Ok, get_limit_if_wrap(cl)[1] - 1>>
             ELSE <<CellPointerOverflow, p>>
        ELSE <<Ok, cp>>

\* State::cells and State::evaluate: the size the iterator over the cells is
\* given, the limit or else the number of cells allocated
cells_size == IF limit(cells_limit) # <<>> THEN limit(cells_limit)[1] ELSE Len(cells)

\* what CellsIter / CellsIntoIter yield, next after next, from the cells left
\* `inner` and the count `size`: the cells, then zeros while size is above 0
RECURSIVE CellsIter(_, _)
CellsIter(inner, size) ==
    IF inner # <<>>
    THEN <<Head(inner)>> \o CellsIter(Tail(inner), IF size > 0 THEN size - 1 ELSE 0)
    ELSE IF size > 0 THEN <<0>> \o CellsIter(inner, size - 1)
    ELSE <<>>

-----------------------------------------------------------------------------
(* The I/O port *)

\* the bytes io.i can deliver: 0, and 0x41
InBytes == {0, 65}

-----------------------------------------------------------------------------
(* The stop channel: sync_channel(0) *)

\* (mutant) the message stays in the channel once received
try_recv_take_Kept(ch) == ch

\* (mutant) the poll never finds a request
try_recv_ok_Never(ch) == FALSE

\* Receiver::try_recv succeeds exactly when a sender is blocked in send(())
try_recv_ok(ch) == ch > 0
\* ... and releases that one sender
try_recv_take(ch) == ch - 1

\* where the interpreter is: outside a run, in run_with_state's own loop, at the
\* test of the innermost loop (between two of its passes), or in a pass of it
Where ==
    IF pc = "idle" THEN "idle"
    ELSE IF stack = <<>> THEN "top"
    ELSE IF stack[Len(stack)].i = 0 THEN "test"
    ELSE "pass"

\* A controller holding get_stop_sender() calls send(()): it blocks until a
\* poll takes the message. (try_send on a rendezvous channel nobody is
\* blocked receiving on returns Full and changes nothing.)
Send ==
    /\ UNCHANGED beside
    /\ pc \in {"idle", "called", "running"}
    /\ nsent < MaxStops
    /\ channel' = channel + 1
    /\ nsent' = nsent + 1
    /\ sent_at' = Where
    /\ last' = <<"send", None>>
    /\ UNCHANGED <<engine, out, inp, pc, stack, result, evaluated, nread, nstopped>>

-----------------------------------------------------------------------------
(* run_command *)

\* (mutant) a failure in a loop body ends that loop only
Fail_Swallowed(e) ==
    /\ pc' = IF stack = <<>> THEN "idle" ELSE "running"
    /\ result' = IF stack = <<>> THEN e ELSE result
    /\ stack' = IF stack = <<>> THEN <<>> ELSE SubSeq(stack, 1, Len(stack) - 1)

\* `?` and `return Err(e)`: the error unwinds every frame to run_with_state's caller
Fail(e) ==
    /\ pc' = "idle"
    /\ result' = e
    /\ stack' = <<>>

\* return Ok(()) to the caller, whose frames are `base`
Return(base) ==
    /\ pc' = "running"
    /\ result' = result
    /\ stack' = base

\* the outcomes of `state.loop_nesting += 1`: an overflow check panics in a
\* debug build and wraps in a release build
IncrOutcomes(n) == IF n = U16Max THEN {"panic", "wrap"} ELSE {"ok"}

\* (mutant) an unmatched LoopEnd is skipped
LoopEndUnmatched_Skipped(base) ==
    /\ loop_nesting = 0
    /\ Return(base)
    /\ last' = <<"exec", LoopEnd>>
    /\ UNCHANGED <<engine, out, inp>>

\* LoopEnd => match state.loop_nesting { 0 => return Err(NoLoopStarted)
LoopEndUnmatched(base) ==
    /\ loop_nesting = 0
    /\ Fail(NoLoopStarted)
    /\ last' = <<"fail", LoopEnd>>
    /\ UNCHANGED <<engine, out, inp>>

\* (mutant) the first pass of a loop begins without the test of line 339
LoopEndOutermost_DoWhile(base) ==
    /\ loop_nesting = 1
    /\ loop_nesting' = 0
    /\ ongoing_loops' = VecNew
    /\ Return(Append(base, [cmds |-> ongoing_loops,
                            i |-> IF VecLen(ongoing_loops) = 0 THEN 0 ELSE 1]))
    /\ last' = <<"loop", LoopEnd>>
    /\ UNCHANGED <<cells, cells_limit, cell_pointer, out, inp>>

\* 1 => the loop is complete: take the buffer as its body and enter the while
\* loop of lines 339-347 (a new frame, at its test)
LoopEndOutermost(base) ==
    /\ loop_nesting = 1
    /\ loop_nesting' = 0
    /\ ongoing_loops' = VecNew
    /\ Return(Append(base, [cmds |-> ongoing_loops, i |-> 0]))
    /\ last' = <<"loop", LoopEnd>>
    /\ UNCHANGED <<cells, cells_limit, cell_pointer, out, inp>>

\* _ => a nested loop ends: buffer the LoopEnd
LoopEndNested(base) ==
    /\ loop_nesting > 1
    /\ loop_nesting' = loop_nesting - 1
    /\ ongoing_loops' = VecPush(ongoing_loops, LoopEnd)
    /\ Return(base)
    /\ last' = <<"buffer", LoopEnd>>
    /\ UNCHANGED <<cells, cells_limit, cell_pointer, out, inp>>

\* LoopBegin => count it, and buffer it unless it is the outermost
LoopBeginArm(base) ==
    /\ \E o \in IncrOutcomes(loop_nesting) :
          IF o = "panic"
          THEN /\ pc' = "panicked"
               /\ last' = <<"panic", LoopBegin>>
               /\ UNCHANGED <<loop_nesting, ongoing_loops, result, stack>>
          ELSE /\ loop_nesting' = (loop_nesting + 1) % (U16Max + 1)
               /\ ongoing_loops' = IF loop_nesting' > 1
                                   THEN VecPush(ongoing_loops, LoopBegin)
                                   ELSE ongoing_loops
               /\ Return(base)
               /\ last' = <<"open", LoopBegin>>
    /\ UNCHANGED <<cells, cells_limit, cell_pointer, out, inp>>

\* cmd if state.loop_nesting > 0 => state.ongoing_loops.push(cmd)
BufferArm(cmd, base) ==
    /\ loop_nesting > 0
    /\ ongoing_loops' = VecPush(ongoing_loops, cmd)
    /\ Return(base)
    /\ last' = <<"buffer", cmd>>
    /\ UNCHANGED <<cells, cells_limit, cell_pointer, loop_nesting, out, inp>>

\* PtrIncr => state.pointer_add()?
PtrIncrArm(base) ==
    /\ loop_nesting = 0
    /\ LET r == pointer_add(cell_pointer, cells_limit)
       IN  /\ cells_limit # NoLimit \/ r[2] <= MaxPtr
           /\ cell_pointer' = r[2]
           /\ IF r[1] = Ok THEN Return(base) ELSE Fail(r[1])
           /\ last' = <<IF r[1] = Ok THEN "exec" ELSE "fail", PtrIncr>>
    /\ UNCHANGED <<cells, cells_limit, ongoing_loops, loop_nesting, out, inp>>

\* PtrDecr => state.pointer_sub()?
PtrDecrArm(base) ==
    /\ loop_nesting = 0
    /\ LET r == pointer_sub(cell_pointer, cells_limit)
       IN  /\ cell_pointer' = r[2]
           /\ IF r[1] = Ok THEN Return(base) ELSE Fail(r[1])
           /\ last' = <<IF r[1] = Ok THEN "exec" ELSE "fail", PtrDecr>>
    /\ UNCHANGED <<cells, cells_limit, ongoing_loops, loop_nesting, out, inp>>

\* Incr => *state.get_mut_cur() += Wrapping(1)
IncrArm(base) ==
    /\ loop_nesting = 0
    /\ cells' = SetCur(WrappingAdd1(get_cur))
    /\ Return(base)
    /\ last' = <<"exec", Incr>>
    /\ UNCHANGED <<cells_limit, cell_pointer, ongoing_loops, loop_nesting, out, inp>>

\* Decr => *state.get_mut_cur() -= Wrapping(1)
DecrArm(base) ==
    /\ loop_nesting = 0
    /\ cells' = SetCur(WrappingSub1(get_cur))
    /\ Return(base)
    /\ last' = <<"exec", Decr>>
    /\ UNCHANGED <<cells_limit, cell_pointer, ongoing_loops, loop_nesting, out, inp>>

\* (mutant) Out writes a zero byte
OutArm_Zero(base) ==
    /\ loop_nesting = 0
    /\ \/ /\ Len(out) < MaxOut
          /\ out' = Append(out, 0)
          /\ Return(base)
          /\ last' = <<"exec", Out>>
       \/ /\ out' = out
          /\ Fail(IoError)
          /\ last' = <<"fail", Out>>
    /\ UNCHANGED <<engine, inp>>

\* Out => io.o.write_all(&[state.get_cur().0])?: the write succeeds or fails
OutArm(base) ==
    /\ loop_nesting = 0
    /\ \/ /\ Len(out) < MaxOut
          /\ out' = Append(out, get_cur)
          /\ Return(base)
          /\ last' = <<"exec", Out>>
       \/ /\ out' = out
          /\ Fail(IoError)
          /\ last' = <<"fail", Out>>
    /\ UNCHANGED <<engine, inp>>

\* In => io.i.read_exact(&mut byte)?; *state.get_mut_cur() = Wrapping(byte[0]):
\* the port delivers a byte, or is exhausted
InArm(base) ==
    /\ loop_nesting = 0
    /\ \/ \E v \in InBytes :
             /\ Len(inp) < MaxIn
             /\ inp' = Append(inp, v)
             /\ cells' = SetCur(v)
             /\ Return(base)
             /\ last' = <<"exec", In>>
       \/ /\ UNCHANGED <<inp, cells>>
          /\ Fail(IoError)
          /\ last' = <<"fail", In>>
    /\ UNCHANGED <<cells_limit, cell_pointer, ongoing_loops, loop_nesting, out>>

\* one call run_command(state, cmd, io), up to its return or its entry into
\* the while loop of lines 339-347; `base` is the caller's frames
run_command(cmd, base) ==
    /\ channel' = channel
    /\ nstopped' = nstopped
    /\ sent_at' = sent_at
    /\ CASE cmd = LoopEnd ->
              \/ LoopEndUnmatched(base)
              \/ LoopEndOutermost(base)
              \/ LoopEndNested(base)
         [] cmd = LoopBegin -> LoopBeginArm(base)
         [] OTHER ->
              \/ BufferArm(cmd, base)
              \/ cmd = PtrIncr /\ PtrIncrArm(base)
              \/ cmd = PtrDecr /\ PtrDecrArm(base)
              \/ cmd = Incr /\ IncrArm(base)
              \/ cmd = Decr /\ DecrArm(base)
              \/ cmd = Out /\ OutArm(base)
              \/ cmd = In /\ InArm(base)

-----------------------------------------------------------------------------
(* run_with_state *)

\* the poll of lines 312-314 and 340-342 found a stop request
PollStopped ==
    /\ try_recv_ok(channel)
    /\ channel' = try_recv_take(channel)
    /\ nstopped' = nstopped + 1
    /\ Fail(Stopped)
    /\ last' = <<"stopped", Where>>
    /\ UNCHANGED <<engine, out, inp, sent_at>>

\* (mutant) every call starts with no loop open and an empty buffer
StartRun_Fresh ==
    /\ UNCHANGED beside
    /\ pc = "idle"
    /\ pc' = "called"
    /\ result' = "none"
    /\ sent_at' = "none"
    /\ last' = <<"start", None>>
    /\ loop_nesting' = 0
    /\ ongoing_loops' = VecNew
    /\ UNCHANGED <<cells, cells_limit, cell_pointer, channel, out, inp, stack, evaluated,
                   nread, nsent, nstopped>>

\* a caller (main.rs line 65 or 90) calls run_with_state(src, &mut state, io)
StartRun ==
    /\ UNCHANGED beside
    /\ pc = "idle"
    /\ pc' = "called"
    /\ result' = "none"
    /\ sent_at' = "none"
    /\ last' = <<"start", None>>
    /\ UNCHANGED <<engine, channel, out, inp, stack, evaluated, nread, nsent, nstopped>>

\* (mutant) the byte is dispatched without the poll of lines 312-314
SrcByte_Unpolled(b) ==
    /\ pc \in {"called", "running"}
    /\ stack = <<>>
    /\ nread' = nread + 1
    /\ UNCHANGED <<evaluated, nsent>>
    /\ IF from_byte(b) = None
       THEN /\ last' = <<"skip", None>>
            /\ pc' = "running"
            /\ UNCHANGED <<engine, channel, out, inp, stack, result, nstopped, sent_at>>
       ELSE run_command(from_byte(b), <<>>)

\* one turn of the for loop of line 311: the stream yields byte b
SrcByte(b) ==
    /\ pc \in {"called", "running"}
    /\ stack = <<>>
    /\ nread' = nread + 1
    /\ UNCHANGED <<evaluated, nsent>>
    /\ \/ PollStopped
       \/ /\ ~try_recv_ok(channel)
          /\ IF from_byte(b) = None
             THEN /\ last' = <<"skip", None>>
                  /\ pc' = "running"
                  /\ UNCHANGED <<engine, channel, out, inp, stack, result, nstopped, sent_at>>
             ELSE run_command(from_byte(b), <<>>)

\* one turn of the for loop: reading the stream fails
SrcError ==
    /\ UNCHANGED beside
    /\ pc \in {"called", "running"}
    /\ stack = <<>>
    /\ nread' = nread + 1
    /\ UNCHANGED <<evaluated, nsent>>
    /\ \/ PollStopped
       \/ /\ ~try_recv_ok(channel)
          /\ Fail(IoError)
          /\ last' = <<"srcerr", None>>
          /\ UNCHANGED <<engine, channel, out, inp, nstopped, sent_at>>

\* (mutant) the end of the stream reports the loops still open
SrcEnd_Checked ==
    /\ UNCHANGED beside
    /\ pc \in {"called", "running"}
    /\ stack = <<>>
    /\ Fail(IF loop_nesting = 0 THEN Ok ELSE UnendedLoop)
    /\ last' = <<"end", None>>
    /\ UNCHANGED <<engine, channel, out, inp, evaluated, nread, nsent, nstopped, sent_at>>

\* the stream is at its end: line 325
SrcEnd ==
    /\ UNCHANGED beside
    /\ pc \in {"called", "running"}
    /\ stack = <<>>
    /\ Fail(Ok)
    /\ last' = <<"end", None>>
    /\ UNCHANGED <<engine, channel, out, inp, evaluated, nread, nsent, nstopped, sent_at>>

Top == stack[Len(stack)]
\* the frames once the innermost loop has moved past command i of its body
Advanced ==
    [stack EXCEPT ![Len(stack)].i = IF Top.i >= VecLen(Top.cmds) THEN 0 ELSE Top.i + 1]

\* (mutant) the while loop does not poll
LoopTest_Unpolled ==
    /\ UNCHANGED beside
    /\ pc = "running"
    /\ stack # <<>>
    /\ Top.i = 0
    /\ UNCHANGED <<evaluated, nread, nsent>>
    /\ IF get_cur = 0
       THEN /\ Return(SubSeq(stack, 1, Len(stack) - 1))
            /\ last' = <<"exit", None>>
            /\ UNCHANGED <<engine, channel, out, inp, nstopped, sent_at>>
       ELSE /\ Return(Advanced)
            /\ last' = <<"pass", None>>
            /\ UNCHANGED <<engine, channel, out, inp, nstopped, sent_at>>

\* the test of the while loop of line 339 and the poll of lines 340-342
LoopTest ==
    /\ UNCHANGED beside
    /\ pc = "running"
    /\ stack # <<>>
    /\ Top.i = 0
    /\ UNCHANGED <<evaluated, nread, nsent>>
    /\ IF get_cur = 0
       THEN /\ Return(SubSeq(stack, 1, Len(stack) - 1))
            /\ last' = <<"exit", None>>
            /\ UNCHANGED <<engine, channel, out, inp, nstopped, sent_at>>
       ELSE \/ PollStopped
            \/ /\ ~try_recv_ok(channel)
               /\ Return(Advanced)
               /\ last' = <<"pass", None>>
               /\ UNCHANGED <<engine, channel, out, inp, nstopped, sent_at>>

\* one turn of the for loop of lines 343-345
LoopBody ==
    /\ UNCHANGED beside
    /\ pc = "running"
    /\ stack # <<>>
    /\ Top.i > 0
    /\ UNCHANGED <<evaluated, nread, nsent>>
    /\ run_command(VecAt(Top.cmds, Top.i), Advanced)

\* State::evaluate consumes the state
Evaluate ==
    /\ UNCHANGED beside
    /\ pc = "idle"
    /\ pc' = "evaluated"
    /\ evaluated' = IF loop_nesting = 0 THEN Ok ELSE UnendedLoop
    /\ last' = <<"evaluate", None>>
    /\ UNCHANGED <<engine, channel, out, inp, stack, result, nread, nsent, nstopped, sent_at>>

-----------------------------------------------------------------------------

\* the reference interpreter before it is started
RefIdle == [status |-> "idle", ip |-> 0, tape |-> <<>>, ptr |-> 0, out |-> <<>>,
            nin |-> 0, outcome |-> "none"]

\* State::new(cells_limit) and InOuter::new
StateNew ==
    /\ cells = <<0>>
    /\ cells_limit \in Limits
    /\ cell_pointer = 0
    /\ ongoing_loops = VecNew
    /\ loop_nesting = 0
    /\ channel = 0
    /\ out = <<>>
    /\ inp = <<>>
    /\ pc = "idle"
    /\ stack = <<>>
    /\ result = "none"
    /\ evaluated = "none"
    /\ nread = 0
    /\ nsent = 0
    /\ nstopped = 0
    /\ sent_at = "none"
    /\ last = <<"new", None>>
    /\ ref = RefIdle
    /\ trail = <<>>

Init == StateNew /\ prog = <<>>

\* the streams explored: MaxSrc bytes from a new State and, from a State that
\* has read DeepOpens bytes, DeepTail more
MoreSrc ==
    \/ nread < MaxSrc
    \/ nread >= DeepOpens /\ nread < DeepOpens + DeepTail

\* the stream yields some byte
ReadByte == \E b \in SrcBytes : MoreSrc /\ SrcByte(b) /\ UNCHANGED beside
ReadError == MoreSrc /\ SrcError

Next ==
    \/ Send
    \/ StartRun
    \/ ReadByte
    \/ ReadError
    \/ SrcEnd
    \/ LoopTest
    \/ LoopBody
    \/ Evaluate

Spec == Init /\ [][Next]_vars

\* A State in the middle of a run that has dispatched DeepOpens times `[` and
\* nothing else: every one was counted, all but the first were buffered.
InitDeep ==
    /\ cells = <<0>>
    /\ cells_limit \in Limits
    /\ cell_pointer = 0
    /\ ongoing_loops = VecRepeat(LoopBegin, DeepOpens - 1)
    /\ loop_nesting = DeepOpens
    /\ channel = 0
    /\ out = <<>>
    /\ inp = <<>>
    /\ pc \in {"called", "running"}
    /\ stack = <<>>
    /\ result = "none"
    /\ evaluated = "none"
    /\ nread = DeepOpens
    /\ nsent = 0
    /\ nstopped = 0
    /\ sent_at = "none"
    /\ last = <<"open", LoopBegin>>
    /\ prog = <<>>
    /\ ref = RefIdle
    /\ trail = <<>>

\* the runs of Spec, and the runs that go on from 65535 open loops
SpecDeep == (Init \/ InitDeep) /\ [][Next]_vars

\* the programs made of + - [ ] only, on a tape without limit
LoopBytes == {43, 45, 91, 93}
InitLoops == Init /\ cells_limit = NoLimit
ReadLoopByte == \E b \in LoopBytes : nread < MaxLoopSrc /\ SrcByte(b) /\ UNCHANGED beside

NextLoops ==
    \/ Send
    \/ StartRun
    \/ ReadLoopByte
    \/ SrcEnd
    \/ LoopTest
    \/ LoopBody
    \/ Evaluate

SpecLoops == InitLoops /\ [][NextLoops]_vars

\* The interpreter's thread keeps running: a loop goes on to its next test
\* and its next command, and the source stream yields its next byte or ends.
\* Nothing makes a controller send, or a caller call again.
SpecLoopsFair ==
    /\ SpecLoops
    /\ WF_vars(LoopTest)
    /\ WF_vars(LoopBody)
    /\ WF_vars(ReadLoopByte \/ SrcEnd)

\* the programs made of > < only; trail records every move dispatched as
\* <<command, pointer before, pointer after, result>>
PtrBytes == {60, 62}
Walk ==
    \E b \in PtrBytes :
        /\ Len(trail) < MaxWalk
        /\ SrcByte(b)
        /\ trail' = Append(trail, <<from_byte(b), cell_pointer, cell_pointer', result'>>)
        /\ UNCHANGED <<prog, ref>>

NextPtr ==
    \/ StartRun
    \/ Walk
    \/ SrcEnd

SpecPtr == Init /\ [][NextPtr]_vars

-----------------------------------------------------------------------------
(* One run of a balanced program, evaluate, and then the reference
   interpreter on the same program, limit and ports *)

CmdBytes == {43, 44, 45, 46, 60, 62, 91, 93}

\* the nesting depth after each byte of p[k..], or -1 when a ] has no [
RECURSIVE Depth(_, _, _)
Depth(p, k, d) ==
    IF d < 0 THEN -1
    ELSE IF k > Len(p) THEN d
    ELSE Depth(p, k + 1, IF p[k] = 91 THEN d + 1 ELSE IF p[k] = 93 THEN d - 1 ELSE d)
Balanced(p) == Depth(p, 1, 0) = 0

\* ++>+++++[<+>-]
Example == <<43, 43, 62, 43, 43, 43, 43, 43, 91, 60, 43, 62, 45, 93>>
Examples ==
    { Example,
      <<43, 91, 91, 45, 93, 93>>,                 \* +[[-]]
      <<43, 43, 91, 62, 43, 91, 45, 93, 60, 45, 93>>,  \* ++[>+[-]<-]
      <<44, 91, 46, 45, 93>>,                     \* ,[.-]
      <<43, 91, 62, 43, 91, 60, 93, 93>>,         \* +[>+[<]]
      <<91, 91, 43, 93, 93, 43, 46>> }            \* [[+]]+.
RefProgs ==
    {p \in UNION {[1..n -> CmdBytes] : n \in 0..MaxRefLen} : Balanced(p)} \cup Examples

InitRef == StateNew /\ prog \in RefProgs

\* main.rs line 90: the one call of run_with_state on the new State
RefStart == last[1] = "new" /\ StartRun
ReadProg == nread < Len(prog) /\ SrcByte(prog[nread + 1]) /\ UNCHANGED beside
ProgEnd == nread = Len(prog) /\ SrcEnd
\* main.rs lines 90-92: evaluate is reached when run_with_state returned Ok
RefEvaluate == result = Ok /\ Evaluate

\* the outcome of run_with_state followed by evaluate
Outcome == IF pc = "evaluated" THEN evaluated ELSE result
Finished == pc = "evaluated" \/ (pc = "idle" /\ result \notin {"none", Ok})

\* the position of the bracket matching the one at k, scanning in direction dir
RECURSIVE Match(_, _, _, _)
Match(p, k, dir, d) ==
    LET d2 == IF p[k] = 91 THEN d + dir ELSE IF p[k] = 93 THEN d - dir ELSE d
    IN  IF d2 = 0 THEN k ELSE Match(p, k + dir, dir, d2)

RefCell(r) == IF r.ptr < Len(r.tape) THEN r.tape[r.ptr + 1] ELSE 0
RefSet(r, v) ==
    [i \in 1..(IF r.ptr < Len(r.tape) THEN Len(r.tape) ELSE r.ptr + 1) |->
        IF i = r.ptr + 1 THEN v ELSE IF i <= Len(r.tape) THEN r.tape[i] ELSE 0]
RefDone(r, o) == [r EXCEPT !.status = "done", !.outcome = o]

\* one instruction of the reference interpreter; its ports accept and deliver
\* what the ports of the run accepted and delivered
RefNext(r) ==
    IF r.ip > Len(prog) THEN RefDone(r, Ok)
    ELSE LET b == prog[r.ip]
             on == [r EXCEPT !.ip = r.ip + 1]
         IN  CASE b = 43 -> [on EXCEPT !.tape = RefSet(r, (RefCell(r) + 1) % CellMod)]
               [] b = 45 -> [on EXCEPT !.tape = RefSet(r, (RefCell(r) + CellMod - 1) % CellMod)]
               [] b = 62 ->
                    IF cells_limit = NoLimit THEN [on EXCEPT !.ptr = r.ptr + 1]
                    ELSE IF cells_limit[2] THEN [on EXCEPT !.ptr = (r.ptr + 1) % cells_limit[1]]
                    ELSE IF r.ptr + 1 < cells_limit[1] THEN [on EXCEPT !.ptr = r.ptr + 1]
                    ELSE RefDone(r, CellPointerOverflow)
               [] b = 60 ->
                    IF r.ptr > 0 THEN [on EXCEPT !.ptr = r.ptr - 1]
                    ELSE IF cells_limit # NoLimit /\ cells_limit[2]
                    THEN [on EXCEPT !.ptr = cells_limit[1] - 1]
                    ELSE RefDone(r, CellPointerOverflow)
               [] b = 46 ->
                    IF Len(r.out) < Len(out)
                    THEN [on EXCEPT !.out = Append(r.out, RefCell(r))]
                    ELSE RefDone(r, IoError)
               [] b = 44 ->
                    IF r.nin < Len(inp)
                    THEN [on EXCEPT !.tape = RefSet(r, inp[r.nin + 1]), !.nin = r.nin + 1]
                    ELSE RefDone(r, IoError)
               [] b = 91 ->
                    IF RefCell(r) = 0
                    THEN [r EXCEPT !.ip = Match(prog, r.ip, 1, 0) + 1]
                    ELSE on
               [] b = 93 ->
                    IF RefCell(r) # 0
                    THEN [r EXCEPT !.ip = Match(prog, r.ip, -1, 0) + 1]
                    ELSE on
               [] OTHER -> on

RefRun ==
    /\ Finished
    /\ ref.status = "idle"
    /\ ref' = [RefIdle EXCEPT !.status = "running", !.ip = 1]
    /\ UNCHANGED <<engine, channel, out, inp, pc, stack, result, evaluated, nread,
                   nsent, nstopped, sent_at, last, prog, trail>>

RefStep ==
    /\ ref.status = "running"
    /\ ref' = RefNext(ref)
    /\ UNCHANGED <<engine, channel, out, inp, pc, stack, result, evaluated, nread,
                   nsent, nstopped, sent_at, last, prog, trail>>

NextRef ==
    \/ RefStart
    \/ ReadProg
    \/ ProgEnd
    \/ LoopTest
    \/ LoopBody
    \/ RefEvaluate
    \/ RefRun
    \/ RefStep

SpecRef == InitRef /\ [][NextRef]_vars

-----------------------------------------------------------------------------
(* A program run twice on a new State with the same limit and the same ports:
   first plainly, in one call, and what it left is kept in ref; then again,
   either with its comment bytes (the first run had them taken out) or in two
   calls, split after ref.cut bytes. The ports are fixed in ref: the bytes the
   input delivers and the number of bytes the output accepts. *)

\* x+[x-x]x.
JunkExample == <<120, 43, 91, 120, 45, 120, 93, 120, 46>>
\* +[>+<-]
SplitExample == <<43, 91, 62, 43, 60, 45, 93>>
TwinExamples ==
    { JunkExample,
      SplitExample,
      <<43, 91, 45, 93>>,                         \* +[-]
      <<43, 91, 120, 91, 45, 93, 93>>,            \* +[x[-]]
      <<44, 91, 46, 120, 60, 93>>,                \* ,[.x<]
      <<43, 91, 91, 62, 93, 93, 46>> }            \* +[[>]].
TwinProgs == UNION {[1..n -> SrcBytes] : n \in 0..MaxTwinLen} \cup TwinExamples

\* the program without its comment bytes
RECURSIVE Strip(_)
Strip(p) ==
    IF p = <<>> THEN <<>>
    ELSE IF Head(p) \in CmdBytes THEN <<Head(p)>> \o Strip(Tail(p))
    ELSE Strip(Tail(p))

InitTwin ==
    /\ cells = <<0>>
    /\ cells_limit \in Limits
    /\ cell_pointer = 0
    /\ ongoing_loops = VecNew
    /\ loop_nesting = 0
    /\ channel = 0
    /\ out = <<>>
    /\ inp = <<>>
    /\ pc = "idle"
    /\ stack = <<>>
    /\ result = "none"
    /\ evaluated = "none"
    /\ nread = 0
    /\ nsent = 0
    /\ nstopped = 0
    /\ sent_at = "none"
    /\ last = <<"new", None>>
    /\ trail = <<>>
    /\ prog \in TwinProgs
    /\ \E mode \in {"junk", "split"},
          input \in UNION {[1..n -> InBytes] : n \in 0..MaxIn},
          outcap \in 0..MaxOut,
          cut \in 0..Len(prog) :
          /\ IF mode = "junk" \/ prog = <<>> THEN cut = 0 ELSE cut < Len(prog)
          /\ ref = [status |-> "first", mode |-> mode, input |-> input,
                    outcap |-> outcap, cut |-> cut, kept |-> <<>>]

\* the stream of the run in progress
Src == IF ref.mode = "junk" /\ ref.status = "first" THEN Strip(prog) ELSE prog

\* the ports behave as ref says
PortsAsFixed ==
    /\ Len(inp') <= Len(ref.input)
    /\ inp' = SubSeq(ref.input, 1, Len(inp'))
    /\ last' = <<"fail", In>> => Len(inp) = Len(ref.input)
    /\ Len(out') <= ref.outcap
    /\ last' = <<"fail", Out>> => Len(out) = ref.outcap

\* what a run leaves behind
Left ==
    [result |-> result, cells |-> cells, cell_pointer |-> cell_pointer,
     loop_nesting |-> loop_nesting, ongoing_loops |-> ongoing_loops,
     out |-> out, inp |-> inp]

\* the program is over: a call returned an error, or the last call returned Ok
TwinOver ==
    /\ pc = "idle"
    /\ result # "none"
    /\ result # Ok \/ nread = Len(Src)

Splitting == ref.mode = "split" /\ ref.status = "second"

TwinStart == last[1] = "new" /\ StartRun
TwinRead ==
    /\ nread < Len(Src)
    /\ (Splitting /\ nread = ref.cut /\ nread > 0) => pc = "called"
    /\ SrcByte(Src[nread + 1])
    /\ PortsAsFixed
    /\ UNCHANGED beside
TwinBody == LoopBody /\ PortsAsFixed
\* main.rs line 65: the first fragment is over, and the next is run
TwinSplit ==
    /\ Splitting
    /\ nread = ref.cut
    /\ nread < Len(prog)
    /\ pc = "running" \/ nread = 0
    /\ SrcEnd
TwinResume ==
    /\ Splitting
    /\ nread = ref.cut
    /\ nread < Len(prog)
    /\ result = Ok
    /\ StartRun
TwinEnd == nread = Len(Src) /\ SrcEnd
\* the first run is over: keep what it left, and begin again with a new State
TwinNext ==
    /\ ref.status = "first"
    /\ TwinOver
    /\ ref' = [ref EXCEPT !.status = "second", !.kept = Left]
    /\ cells' = <<0>>
    /\ cell_pointer' = 0
    /\ ongoing_loops' = VecNew
    /\ loop_nesting' = 0
    /\ out' = <<>>
    /\ inp' = <<>>
    /\ pc' = "idle"
    /\ stack' = <<>>
    /\ result' = "none"
    /\ nread' = 0
    /\ last' = <<"new", None>>
    /\ UNCHANGED <<cells_limit, channel, evaluated, nsent, nstopped, sent_at, prog, trail>>

NextTwin ==
    \/ TwinStart
    \/ TwinRead
    \/ LoopTest
    \/ TwinBody
    \/ TwinSplit
    \/ TwinResume
    \/ TwinEnd
    \/ TwinNext

SpecTwin == InitTwin /\ [][NextTwin]_vars

-----------------------------------------------------------------------------
(* The runs of the 8 instructions without stop requests, where trail holds
   the highest index of a cell written through get_mut_cur so far: <<>> while
   none was written, <<h>> after *)

\* trail after a step: Incr, Decr and a successful In write the current cell
Highest ==
    IF last' \in {<<"exec", Incr>>, <<"exec", Decr>>, <<"exec", In>>}
    THEN IF trail = <<>> \/ trail[1] < cell_pointer THEN <<cell_pointer>> ELSE trail
    ELSE trail

TapeRead ==
    \E b \in CmdBytes :
        /\ nread < MaxTapeSrc
        /\ SrcByte(b)
        /\ trail' = Highest
        /\ UNCHANGED <<prog, ref>>
\* one turn of the for loop of lines 343-345
TapeBody ==
    /\ pc = "running"
    /\ stack # <<>>
    /\ Top.i > 0
    /\ UNCHANGED <<evaluated, nread, nsent>>
    /\ run_command(VecAt(Top.cmds, Top.i), Advanced)
    /\ trail' = Highest
    /\ UNCHANGED <<prog, ref>>

NextTape ==
    \/ StartRun
    \/ TapeRead
    \/ SrcEnd
    \/ LoopTest
    \/ TapeBody

SpecTape == Init /\ [][NextTape]_vars

-----------------------------------------------------------------------------
(* One run of a program of + . < [ ] fixed in advance, with stop requests *)

NestBytes == {43, 46, 60, 91, 93}
\* +[[<]]
NestExample == <<43, 91, 91, 60, 93, 93>>
NestExamples ==
    { NestExample,
      <<43, 91, 91, 91, 60, 93, 93, 93>>,         \* +[[[<]]]
      <<43, 91, 43, 91, 46, 93, 93>>,             \* +[+[.]]
      <<43, 91, 62, 43, 91, 62, 93, 93>>,         \* +[>+[>]]
      <<43, 91, 91, 93, 93, 60>>,                 \* +[[]]<
      <<44, 91, 91, 44, 93, 93>> }                \* ,[[,]]
NestProgs == UNION {[1..n -> NestBytes] : n \in 0..MaxNestLen} \cup NestExamples

InitNest == StateNew /\ prog \in NestProgs

NextNest ==
    \/ Send
    \/ RefStart
    \/ ReadProg
    \/ ProgEnd
    \/ LoopTest
    \/ LoopBody

SpecNest == InitNest /\ [][NextNest]_vars

-----------------------------------------------------------------------------
(* The claims *)

\* C2: a LoopEnd dispatched while loop_nesting is 0 makes the run return
\* NoLoopStarted at once: cells, pointer, counter, buffer, output and input are
\* as before, and the run is over (no further byte of its stream is read).
DispatchedAtTop(c) ==
    /\ pc \in {"called", "running"} /\ stack = <<>> /\ ~try_recv_ok(channel)
    /\ nread' = nread + 1 /\ last'[2] = c
DispatchedInBody(c) ==
    /\ pc = "running" /\ stack # <<>> /\ Top.i > 0 /\ VecAt(Top.cmds, Top.i) = c
    /\ nread' = nread /\ nsent' = nsent
C2_UnmatchedClose ==
    [][ (loop_nesting = 0 /\ (DispatchedAtTop(LoopEnd) \/ DispatchedInBody(LoopEnd)))
        => /\ result' = NoLoopStarted
           /\ pc' = "idle"
           /\ stack' = <<>>
           /\ UNCHANGED <<engine, out, inp, channel>> ]_vars
C2_Witness ==
    /\ result = NoLoopStarted
    /\ last = <<"fail", LoopEnd>>
    /\ pc = "idle"

\* C3: a stream that ends with loops still open makes run_with_state return
\* Ok: no run ever returns UnendedLoop; only evaluate does, and it returns Ok
\* exactly when loop_nesting is 0.
C3_StreamEnd ==
    /\ result # UnendedLoop
    /\ last = <<"end", None>> => result = Ok /\ pc = "idle"
    /\ pc = "evaluated" => /\ evaluated \in {Ok, UnendedLoop}
                           /\ evaluated = Ok <=> loop_nesting = 0
    /\ pc # "evaluated" => evaluated = "none"
C3_Witness ==
    /\ pc = "evaluated"
    /\ result = Ok
    /\ loop_nesting > 0
    /\ evaluated = UnendedLoop

\* C4: the buffer is empty whenever the counter is 0.
C4_BufferEmptyAtZero == loop_nesting = 0 => VecLen(ongoing_loops) = 0

\* a cell of the tape by its index: cells beyond the allocated ones read 0
CellOf(cs, i) == IF i < Len(cs) THEN cs[i + 1] ELSE 0
Indices == 0..(Len(cells) + cell_pointer + 1)

\* C8: Incr and Decr dispatched at loop_nesting 0 do not fail and change only
\* the current cell, by +1 and -1 modulo 256 (255 -> 0, 0 -> 255); every cell
\* stays in 0..255.
C8_CellArithmetic ==
    [][ /\ \A c \in {Incr, Decr} :
             (loop_nesting = 0 /\ (DispatchedAtTop(c) \/ DispatchedInBody(c)))
             => /\ pc' = "running" /\ result' = result
                /\ CellOf(cells', cell_pointer) =
                     IF c = Incr
                     THEN (IF get_cur = 255 THEN 0 ELSE get_cur + 1)
                     ELSE (IF get_cur = 0 THEN 255 ELSE get_cur - 1)
                /\ \A i \in Indices :
                     i # cell_pointer => CellOf(cells', i) = CellOf(cells, i)
                /\ UNCHANGED <<cells_limit, cell_pointer, ongoing_loops,
                               loop_nesting, out, inp, channel>>
        /\ \A k \in 1..Len(cells') : cells'[k] \in 0..255 ]_vars
C8_Witness ==
    /\ last = <<"exec", Incr>>
    /\ get_cur = 0
    /\ pc = "running"

\* a step that polls the channel: a turn of run_with_state's for loop, or a
\* loop test that finds the current cell non-zero
Polled ==
    /\ nsent' = nsent
    /\ \/ pc \in {"called", "running"} /\ stack = <<>> /\ nread' = nread + 1
       \/ pc = "running" /\ stack # <<>> /\ Top.i = 0 /\ get_cur # 0

\* C5 as claimed: once a poll has returned Stopped, every later poll on the
\* same State returns Stopped, with no second stop request.
C5_Original ==
    [][ (Polled /\ nstopped >= 1 /\ nsent = 1) => result' = Stopped ]_vars

\* C5, amended: a poll returns Stopped exactly when a request is pending, and
\* takes that request out of the channel: every request stops one poll, and
\* the polls that returned Stopped plus the requests pending are the requests
\* made.
C5_ConsumedOnce ==
    [][ /\ Polled => IF channel > 0
                     THEN result' = Stopped /\ pc' = "idle" /\ channel' = channel - 1
                     ELSE result' # Stopped /\ channel' = channel
        /\ nstopped' + channel' = nsent' ]_vars
C5_Witness ==
    /\ nsent = 1
    /\ nstopped = 1
    /\ pc = "running"
    /\ last[1] \in {"skip", "exec", "open"}

\* C6 as claimed: for every stream, a run entered with a request pending
\* returns Stopped and leaves tape, pointer, counter, buffer, output and
\* input as they were.
C6_Original ==
    [][ (pc = "called" /\ channel > 0 /\ nsent' = nsent)
        => /\ result' = Stopped
           /\ pc' = "idle"
           /\ UNCHANGED <<engine, out, inp>> ]_vars

\* C6, amended: that holds for every stream that yields at least one byte
\* (or read error); an empty stream makes the run return Ok without a poll.
C6_StoppedAtFirstByte ==
    [][ (pc = "called" /\ channel > 0 /\ nsent' = nsent)
        => /\ result' = IF nread' = nread + 1 THEN Stopped ELSE Ok
           /\ channel' = IF nread' = nread + 1 THEN channel - 1 ELSE channel
           /\ pc' = "idle"
           /\ UNCHANGED <<engine, out, inp>> ]_vars
C6_Witness ==
    /\ last = <<"stopped", "top">>
    /\ result = Stopped
    /\ pc = "idle"
    /\ nread = 1

\* C7 as claimed: a run in one of whose loop passes a stop request was made
\* halts with Stopped (it does not return Ok with the request unobserved).
C7_Original ==
    ~(pc = "idle" /\ result = Ok /\ sent_at = "pass" /\ channel > 0)

\* C7, amended: a request is observed by the next loop test that finds the
\* current cell non-zero: the run returns Stopped there, every frame is left,
\* no further pass begins, and tape and pointer are as the instructions
\* executed so far left them. A test that finds the cell zero ends the loop
\* without a poll, the request still pending; the instructions of a pass do
\* not poll.
C7_StoppedAtLoopTest ==
    [][ /\ (pc = "running" /\ stack # <<>> /\ Top.i = 0 /\ nsent' = nsent)
           => IF get_cur = 0
              THEN /\ pc' = "running"
                   /\ stack' = SubSeq(stack, 1, Len(stack) - 1)
                   /\ UNCHANGED <<engine, channel, out, inp>>
              ELSE IF channel > 0
              THEN /\ result' = Stopped
                   /\ pc' = "idle"
                   /\ stack' = <<>>
                   /\ channel' = channel - 1
                   /\ UNCHANGED <<engine, out, inp>>
              ELSE /\ pc' = "running"
                   /\ Len(stack') = Len(stack)
                   /\ UNCHANGED <<engine, channel, out, inp>>
        /\ (pc = "running" /\ stack # <<>> /\ Top.i > 0 /\ nsent' = nsent)
           => channel' = channel /\ result' # Stopped ]_vars
C7_Witness ==
    /\ last = <<"stopped", "test">>
    /\ sent_at = "pass"
    /\ result = Stopped
    /\ get_cur # 0

\* C10: under a limit of n cells that does not wrap, PtrIncr at pointer n-1
\* and PtrDecr at pointer 0 fail with CellPointerOverflow and every other move
\* goes one cell; without a limit PtrDecr at pointer 0 fails the same way; a
\* failed move leaves pointer and tape as they were.
Moved(c) == loop_nesting = 0 /\ (DispatchedAtTop(c) \/ DispatchedInBody(c))
MoveFailed ==
    /\ result' = CellPointerOverflow
    /\ pc' = "idle"
    /\ UNCHANGED <<cells, cell_pointer>>
MovedTo(q) ==
    /\ cell_pointer' = q
    /\ pc' = "running"
    /\ result' = result
    /\ cells' = cells
C10_StrictLimit ==
    [][ /\ (Moved(PtrIncr) /\ cells_limit # NoLimit /\ ~wraps(cells_limit))
           => IF cell_pointer = cells_limit[1] - 1
              THEN MoveFailed
              ELSE MovedTo(cell_pointer + 1)
        /\ (Moved(PtrDecr) /\ ~wraps(cells_limit))
           => IF cell_pointer = 0
              THEN MoveFailed
              ELSE MovedTo(cell_pointer - 1) ]_vars
C10_Witness ==
    /\ last = <<"fail", PtrIncr>>
    /\ result = CellPointerOverflow
    /\ cells_limit # NoLimit
    /\ ~wraps(cells_limit)
    /\ cell_pointer = cells_limit[1] - 1
    /\ cell_pointer > 0

\* C9: under a wrapping limit of n cells every move succeeds, an advance goes
\* from p to (p+1) mod n and a retreat to (p-1) mod n; n advances in a row, n
\* retreats in a row, and an advance and a retreat in either order, end where
\* they began.
SameMoves(k, n) == \A j \in k..(k + n - 1) : trail[j][1] = trail[k][1]
C9_WrapLimit ==
    wraps(cells_limit) =>
        LET n == cells_limit[1]
        IN  /\ \A k \in 1..Len(trail) :
                 /\ trail[k][4] = "none"
                 /\ trail[k][2] \in 0..(n - 1)
                 /\ trail[k][3] = IF trail[k][1] = PtrIncr
                                  THEN (trail[k][2] + 1) % n
                                  ELSE (trail[k][2] + n - 1) % n
            /\ \A k \in 1..Len(trail) :
                 (k + n - 1 <= Len(trail) /\ SameMoves(k, n))
                 => trail[k + n - 1][3] = trail[k][2]
            /\ \A k \in 1..(Len(trail) - 1) :
                 trail[k + 1][1] # trail[k][1] => trail[k + 1][3] = trail[k][2]
C9_Witness ==
    /\ wraps(cells_limit)
    /\ cells_limit[1] = MaxLimit
    /\ Len(trail) >= MaxLimit + 1
    /\ trail[1] = <<PtrDecr, 0, MaxLimit - 1, "none">>
    /\ trail[2] = <<PtrIncr, MaxLimit - 1, 0, "none">>
    /\ SameMoves(2, MaxLimit)

\* C1: when the reference interpreter has finished a balanced program, the
\* run followed by evaluate has the same outcome, the same tape (cells never
\* written being 0), the same pointer and the same output; the example
\* ++>+++++[<+>-] on a tape without limit ends with success, cell 0 = 7,
\* cell 1 = 0 and the pointer at 1. (The reference skips the body of a loop
\* entered on a zero cell.)
RefCells == 0..(Len(cells) + Len(ref.tape))
C11_InertBytes ==
    (ref.mode = "junk" /\ ref.status = "second" /\ TwinOver) => Left = ref.kept
C11_Witness ==
    /\ ref.mode = "junk"
    /\ ref.status = "second"
    /\ TwinOver
    /\ prog = JunkExample
    /\ result = Ok
    /\ cells_limit = NoLimit
    /\ out = <<0>>

\* C12: Out dispatched at loop_nesting 0 appends one byte, the value of the
\* current cell, to the output and changes nothing of the State, or fails; In
\* takes one byte from the input and sets the current cell to it, every other
\* cell, the pointer, counter, buffer and output being as before, or fails; a
\* failure returns IoError with State, output and input as they were. The
\* program ,. with input 0x41 outputs 0x41.
IoFailed ==
    /\ result' = IoError
    /\ pc' = "idle"
    /\ stack' = <<>>
    /\ UNCHANGED <<engine, out, inp>>
C12_InputOutput ==
    /\ []((nread = 2 /\ last = <<"exec", Out>> /\ inp = <<65>>) => out = <<65>>)
    /\ [][ /\ Moved(Out)
              => \/ IoFailed
                 \/ /\ out' = Append(out, CellOf(cells, cell_pointer))
                    /\ pc' = "running"
                    /\ result' = result
                    /\ UNCHANGED <<engine, inp>>
           /\ Moved(In)
              => \/ IoFailed
                 \/ /\ Len(inp') = Len(inp) + 1
                    /\ SubSeq(inp', 1, Len(inp)) = inp
                    /\ CellOf(cells', cell_pointer) = inp'[Len(inp')]
                    /\ \A i \in Indices \ {cell_pointer} : CellOf(cells', i) = CellOf(cells, i)
                    /\ pc' = "running"
                    /\ result' = result
                    /\ UNCHANGED <<cells_limit, cell_pointer, ongoing_loops, loop_nesting, out>> ]_vars
C12_Witness ==
    /\ nread = 2
    /\ last = <<"exec", Out>>
    /\ inp = <<65>>
    /\ out = <<65>>
    /\ cells = <<65>>

\* C13: while loop_nesting is greater than 0, every instruction dispatched,
\* except the LoopEnd that brings the counter to 0, leaves tape, pointer,
\* output and input untouched and is appended to ongoing_loops, after what
\* was there; the LoopBegin that takes the counter from 0 to 1 and the LoopEnd
\* that takes it from 1 to 0 are not put in the buffer.
Dispatched(c) == DispatchedAtTop(c) \/ DispatchedInBody(c)
Appended(c) ==
    /\ VecLen(ongoing_loops') = VecLen(ongoing_loops) + 1
    /\ VecAt(ongoing_loops', VecLen(ongoing_loops')) = c
    /\ \A i \in 1..VecLen(ongoing_loops) : VecAt(ongoing_loops', i) = VecAt(ongoing_loops, i)
C13_BufferedNotExecuted ==
    [][ /\ \A c \in Command :
             (loop_nesting > 0 /\ Dispatched(c) /\ ~(c = LoopEnd /\ loop_nesting = 1))
             => /\ pc' = "running"
                /\ result' = result
                /\ UNCHANGED <<cells, cell_pointer, out, inp>>
                /\ Appended(c)
        /\ (loop_nesting = 0 /\ Dispatched(LoopBegin))
           => /\ loop_nesting' = 1
              /\ UNCHANGED <<cells, cell_pointer, out, inp, ongoing_loops>>
        /\ (loop_nesting = 1 /\ Dispatched(LoopEnd))
           => /\ loop_nesting' = 0
              /\ ongoing_loops' = VecNew
              /\ stack'[Len(stack')].cmds = ongoing_loops
              /\ UNCHANGED <<cells, cell_pointer, out, inp>> ]_vars

\* C14: a failure raised while a loop body is replayed, at any depth (a
\* pointer move that overflows, a port that fails, a stop request found at a
\* loop test), is what run_with_state returns: every frame is left, nothing
\* of the State, the output or the input changes in that step or after it
\* until the next call, and loop_nesting is 0 and ongoing_loops empty.
RaisedInBody(e) ==
    /\ pc = "running"
    /\ stack # <<>>
    /\ nsent' = nsent
    /\ \/ e = Stopped /\ Top.i = 0 /\ get_cur # 0 /\ channel > 0
       \/ /\ e = CellPointerOverflow
          /\ Top.i > 0
          /\ loop_nesting = 0
          /\ \/ /\ VecAt(Top.cmds, Top.i) = PtrDecr
                /\ cell_pointer = 0
                /\ ~wraps(cells_limit)
             \/ /\ VecAt(Top.cmds, Top.i) = PtrIncr
                /\ cells_limit # NoLimit
                /\ ~wraps(cells_limit)
                /\ cell_pointer = cells_limit[1] - 1
       \/ /\ e = IoError
          /\ Top.i > 0
          /\ loop_nesting = 0
          /\ VecAt(Top.cmds, Top.i) \in {Out, In}
          /\ out' = out
          /\ inp' = inp
C15_SplitRuns ==
    (Splitting /\ TwinOver) => Left = ref.kept
C15_Witness ==
    /\ Splitting
    /\ TwinOver
    /\ prog = SplitExample
    /\ ref.cut = 4
    /\ result = Ok
    /\ cells_limit = NoLimit
    /\ cells = <<0, 1>>

\* C16: a run with a stop request pending eventually returns; the loop of
\* +[], whose cell is never zero, goes round for ever while no request is
\* pending, and once one is pending the run returns Stopped, at the first
\* loop test that follows the request.
EmptyLoop ==
    /\ pc = "running"
    /\ stack = <<[cmds |-> VecNew, i |-> 0]>>
    /\ get_cur # 0
C16_StopIsLive ==
    /\ (channel > 0 /\ pc \in {"called", "running"}) ~> (pc = "idle")
    /\ (channel > 0 /\ EmptyLoop) ~> (pc = "idle" /\ result = Stopped)
    /\ [][ /\ (EmptyLoop /\ channel = 0 /\ nsent' = nsent)
              => (pc' = "running" /\ stack' = stack /\ cells' = cells)
           /\ (pc = "running" /\ stack # <<>> /\ Top.i = 0 /\ get_cur # 0
               /\ channel > 0 /\ nsent' = nsent)
              => (pc' = "idle" /\ result' = Stopped) ]_vars
C16_Witness ==
    /\ last = <<"stopped", "test">>
    /\ sent_at = "test"
    /\ result = Stopped
    /\ nread = 3
    /\ cells = <<1>>

\* C17: the tape has at least one cell and as many as the highest index ever
\* written requires, 1 + that index; its length never decreases; Incr, Decr
\* and In that succeeds extend it with zeros to pointer + 1 cells when the
\* pointer is beyond its end; no other step changes the tape, and a read
\* beyond its end (get_cur for Out and for the loop test) yields 0.
Max(a, b) == IF a >= b THEN a ELSE b
Writes == Moved(Incr) \/ Moved(Decr) \/ (Moved(In) /\ inp' # inp)
C17_TapeGrowth ==
    /\ [](Len(cells) = IF trail = <<>> THEN 1 ELSE Max(1, 1 + trail[1]))
    /\ [](cell_pointer >= Len(cells) => get_cur = 0)
    /\ [][ /\ Len(cells') >= Len(cells)
           /\ Writes
              => /\ Len(cells') = Max(Len(cells), cell_pointer + 1)
                 /\ \A i \in 0..(Len(cells') - 1) :
                      i # cell_pointer => cells'[i + 1] = CellOf(cells, i)
           /\ ~Writes => cells' = cells
           /\ (Moved(Out) /\ out' # out /\ cell_pointer >= Len(cells))
              => out' = Append(out, 0)
           /\ (pc = "running" /\ stack # <<>> /\ Top.i = 0
               /\ cell_pointer >= Len(cells))
              => stack' = SubSeq(stack, 1, Len(stack) - 1) ]_vars
C17_Witness ==
    /\ cells_limit = NoLimit
    /\ cells = <<0, 0, 1>>
    /\ trail = <<2>>
    /\ cell_pointer = 2
    /\ nread = 3

\* C18: whenever loop_nesting is greater than 0 it is 1 + the LoopBegin in
\* ongoing_loops - the LoopEnd in it, and no prefix of ongoing_loops has more
\* LoopEnd than LoopBegin; every body being replayed is balanced, and at each
\* test of a loop the counter is 0.
RECURSIVE CountOf(_, _)
CountOf(v, c) ==
    IF v = <<>> THEN 0
    ELSE (IF v[1].c = c THEN v[1].n ELSE 0) + CountOf(Tail(v), c)
\* no prefix of v, entered with `open` loops open, closes more than are open
RECURSIVE PrefixesOpen(_, _)
PrefixesOpen(v, open) ==
    IF v = <<>> THEN TRUE
    ELSE LET after == IF v[1].c = LoopBegin THEN open + v[1].n
                      ELSE IF v[1].c = LoopEnd THEN open - v[1].n
                      ELSE open
         IN  after >= 0 /\ PrefixesOpen(Tail(v), after)
C18_CounterMatchesBuffer ==
    /\ loop_nesting > 0
       => /\ loop_nesting = 1 + CountOf(ongoing_loops, LoopBegin) - CountOf(ongoing_loops, LoopEnd)
          /\ PrefixesOpen(ongoing_loops, 0)
    /\ \A k \in 1..Len(stack) :
          /\ CountOf(stack[k].cmds, LoopBegin) = CountOf(stack[k].cmds, LoopEnd)
          /\ PrefixesOpen(stack[k].cmds, 0)
    /\ (stack # <<>> /\ Top.i = 0) => loop_nesting = 0

\* C19: under a limit of n cells, wrapping or not, the pointer is in 0..n-1
\* and at most n cells are allocated; the iterator of cells() and evaluate()
\* yields n values, the allocated cells and then zeros.
C19_WithinLimit ==
    cells_limit # NoLimit
    => /\ cell_pointer \in 0..(cells_limit[1] - 1)
       /\ Len(cells) <= cells_limit[1]
       /\ Len(CellsIter(cells, cells_size)) = cells_limit[1]
       /\ \A i \in 0..(cells_limit[1] - 1) :
            CellsIter(cells, cells_size)[i + 1] = CellOf(cells, i)
C19_Witness ==
    /\ cells_limit = <<MaxLimit, TRUE>>
    /\ cell_pointer = MaxLimit - 1
    /\ last = <<"exec", PtrDecr>>
    /\ Len(cells) = 1
    /\ CellsIter(cells, cells_size) = Zeros(MaxLimit)

\* C20: loop_nesting counts the loops open: every LoopBegin dispatched makes
\* it one more, at any number of loops open, and every LoopEnd dispatched
\* while it is above 0 one less; evaluate returns Ok only with no LoopBegin
\* left in the buffer.
C20_CounterCounts ==
    /\ []((pc = "evaluated" /\ evaluated = Ok) => CountOf(ongoing_loops, LoopBegin) = 0)
    /\ [][ /\ Dispatched(LoopBegin)
              => (loop_nesting' = loop_nesting + 1 /\ pc' = "running")
           /\ (Dispatched(LoopEnd) /\ loop_nesting > 0)
              => loop_nesting' = loop_nesting - 1 ]_vars

====
